---- MODULE Spec2Model ----
(***************************************************************************)
(* Model of BarbadosPropertyScraper (src/main.py): the recursive           *)
(* pagination walk scrape -> scrape_page -> scrape_listing, the field      *)
(* extraction of scrape_listing, and the exporter's file name.             *)
(*                                                                         *)
(* A Python str is a sequence of one-character strings; a code point that  *)
(* is not ASCII is written by its name ("U+00E9").  The result of          *)
(* select_one is Missing (Python None, falsy) or <<element>>; an element   *)
(* is modelled by the text or the attribute the code reads from it.        *)
(***************************************************************************)
EXTENDS FiniteSets, Integers, Sequences, TLC

VARIABLES
    start_url,          \* self.start_url
    transaction_type,   \* self.transaction_type
    site,               \* the site's pagination: [n |-> pages, back |-> target of the last page's next link, 0 if none]
    served,             \* index page number -> the listing hrefs the site served for it,
                        \* kept for the pages a next link can lead back to
    listing_soup,       \* listing URL -> the parsed listing page the site serves
    pc,                 \* position of the single thread of control
    stack,              \* the url argument of every active scrape_page frame, outermost first
    page_soup,          \* soup of the innermost scrape_page frame
    idx,                \* position of the for loop over listing_elements (1-based)
    scraped_urls,       \* self.scraped_urls
    data,               \* self.data
    discovered,         \* history: the resolved URLs of all listing links of the index pages fetched
    fetched,            \* history: index page URLs passed to requests.get by scrape_page, in order
    invoked,            \* history: URLs scrape_listing was called with, in order
    exports,            \* history: number of calls of save_to_excel
    failure,            \* "none", or the kind of the uncaught exception that ended the run
    filename            \* sanitized_filename of save_to_excel, <<>> before it is computed

vars == <<start_url, transaction_type, site, served, listing_soup, pc, stack, page_soup,
          idx, scraped_urls, data, discovered, fetched, invoked, exports, failure, filename>>

----------------------------------------------------------------------------
(* Bounds of the model. *)

\* Index pages a site has at most.
MaxPages == 3
\* Nested scrape_page frames the interpreter admits before it raises
\* RecursionError (sys.getrecursionlimit(), which main.py never changes), scaled down.
RecursionLimit == 2
\* Distinct listing hrefs of a site.
NumListings == 2
\* Listing links on one index page at most.
MaxLinks == 2
\* Labels, and items, of a "further information" section at most.
MaxFields == 2
\* Characters of a start URL after its scheme at most.
MaxUrlLen == 2

----------------------------------------------------------------------------
(* Python values and str methods. *)

None == <<"None">>
Missing == << >>

Min(a, b) == IF a <= b THEN a ELSE b

IsSpace(c) == c \in {" ", "\t", "\n"}

RECURSIVE LStrip(_)
LStrip(s) == IF s # << >> /\ IsSpace(Head(s)) THEN LStrip(Tail(s)) ELSE s

RECURSIVE RStrip(_)
RStrip(s) == IF s # << >> /\ IsSpace(s[Len(s)]) THEN RStrip(SubSeq(s, 1, Len(s) - 1)) ELSE s

\* str.strip(), which get_text(strip=True) applies to an element's text
strip(s) == RStrip(LStrip(s))

get_text(element) == strip(element)

StartsWith(s, p) == Len(p) <= Len(s) /\ SubSeq(s, 1, Len(p)) = p

\* str.replace(old, new) for a non-empty old: leftmost occurrences, not overlapping
RECURSIVE replace(_, _, _)
replace(s, old, new) ==
    IF s = << >> THEN << >>
    ELSE IF StartsWith(s, old)
         THEN new \o replace(SubSeq(s, Len(old) + 1, Len(s)), old, new)
         ELSE <<Head(s)>> \o replace(Tail(s), old, new)

\* sub in s
Contains(s, sub) == \E i \in 1..(Len(s) - Len(sub) + 1) : SubSeq(s, i, i + Len(sub) - 1) = sub

UpperCase == <<"A","B","C","D","E","F","G","H","I","J","K","L","M",
               "N","O","P","Q","R","S","T","U","V","W","X","Y","Z">>
LowerCase == <<"a","b","c","d","e","f","g","h","i","j","k","l","m",
               "n","o","p","q","r","s","t","u","v","w","x","y","z">>
Digits == <<"0","1","2","3","4","5","6","7","8","9">>

Range(f) == {f[i] : i \in DOMAIN f}

\* str.lower()
lower(s) ==
    [i \in 1..Len(s) |->
        IF s[i] \in Range(UpperCase)
        THEN LowerCase[CHOOSE j \in 1..Len(UpperCase) : UpperCase[j] = s[i]]
        ELSE s[i]]

\* x or y: None and the empty str are falsy
PyOr(x, y) == IF x # None /\ x # << >> THEN x ELSE y

\* dict.get(key, default)
DictGet(d, key, default) == IF key \in DOMAIN d THEN d[key] ELSE default

\* d[key] = value
DictSet(d, key, value) == [k \in DOMAIN d \cup {key} |-> IF k = key THEN value ELSE d[k]]

EmptyDict == [k \in {} |-> << >>]

----------------------------------------------------------------------------
(* scrape_listing: the extraction of one listing page. *)

Dash == <<"-">>
NA == <<"N", "/", "A">>
LandArea == <<"L", "a", "n", "d", " ", "A", "r", "e", "a">>
FloorArea == <<"F", "l", "o", "o", "r", " ", "A", "r", "e", "a">>

\* x.get_text(strip=True) if x else default
TextOr(element, default) == IF element # Missing THEN get_text(element[1]) ELSE default

\* x['href'] if x else default, x['content'] if x else default
AttrOr(element, default) == IF element # Missing THEN element[1] ELSE default

\* Mutant of SelectAddress: the fallback has no sentinel of its own.
AddressNoSentinel(soup) ==
    IF soup.address # Missing
    THEN get_text(soup.address[1])
    ELSE IF soup.fallback_address # Missing THEN get_text(soup.fallback_address[1]) ELSE None

\* the address (lines 90-96): the maps anchor, else div.field-name-location-ds-, else '-'
SelectAddress(soup) ==
    IF soup.address # Missing
    THEN get_text(soup.address[1])
    ELSE TextOr(soup.fallback_address, Dash)

\* Mutant of zip: the shorter sequence is paired with the end of the longer one.
ZipFromEnd(field_labels, field_items) ==
    LET n == Min(Len(field_labels), Len(field_items))
    IN  [i \in 1..n |-> <<field_labels[Len(field_labels) - n + i],
                          field_items[Len(field_items) - n + i]>>]

\* zip(field_labels, field_items)
zip(field_labels, field_items) ==
    [i \in 1..Min(Len(field_labels), Len(field_items)) |-> <<field_labels[i], field_items[i]>>]

\* the body of the for loop over the zipped pairs, run on all of them in order
RECURSIVE CharacteristicsLoop(_, _)
CharacteristicsLoop(pairs, characteristics) ==
    IF pairs = << >> THEN characteristics
    ELSE LET label == Head(pairs)[1]
             item  == Head(pairs)[2]
             key   == replace(get_text(label), <<":">>, << >>)
             value == get_text(item)
         IN  CharacteristicsLoop(Tail(pairs), DictSet(characteristics, key, value))

Characteristics(soup) ==
    IF soup.further_info_div # Missing
    THEN CharacteristicsLoop(zip(soup.further_info_div[1].field_labels,
                                 soup.further_info_div[1].field_items), EmptyDict)
    ELSE EmptyDict

Amenities(soup) ==
    IF soup.amenities_list # Missing
    THEN [i \in 1..Len(soup.amenities_list[1]) |-> get_text(soup.amenities_list[1][i])]
    ELSE << >>

\* characteristics.get('Land Area') or characteristics.get('Floor Area', 'N/A')
Area(characteristics) ==
    PyOr(DictGet(characteristics, LandArea, None), DictGet(characteristics, FloorArea, NA))

MoreInfo(soup) ==
    ("Rental Price" :> TextOr(soup.rental_price, Dash))
    @@ ("Property Reference" :> TextOr(soup.property_reference, Dash))
    @@ ("Sale Price" :> TextOr(soup.sale_price_div, Dash))
    @@ ("External Link" :> AttrOr(soup.external_link_tag, Dash))

\* property_data, the record scrape_listing appends to self.data
PropertyData(url, soup, transaction) ==
    LET more_info == MoreInfo(soup)
        characteristics == Characteristics(soup)
    IN  ("url" :> url)
        @@ ("name" :> AttrOr(soup.name, Dash))
        @@ ("address" :> SelectAddress(soup))
        @@ ("Sale Price" :> DictGet(more_info, "Sale Price", Dash))
        @@ ("Rent Price" :> DictGet(more_info, "Rental Price", Dash))
        @@ ("Area" :> Area(characteristics))
        @@ ("description" :> TextOr(soup.description_div, Dash))
        @@ ("latitude" :> AttrOr(soup.latitude, Dash))
        @@ ("longitude" :> AttrOr(soup.longitude, Dash))
        @@ ("property_type" :> TextOr(soup.property_type, Dash))
        @@ ("transaction_type" :> transaction)
        @@ ("characteristics" :> characteristics)
        @@ ("amenities" :> Amenities(soup))
        @@ ("more_information" :> more_info)

\* The elements scrape_listing selects from a listing page, by the name of the
\* local variable that receives each.
SoupFields == {"rental_price", "property_reference", "sale_price_div", "external_link_tag",
               "name", "latitude", "longitude", "address", "fallback_address",
               "property_type", "description_div", "further_info_div", "amenities_list"}

\* A listing page on which every selector finds nothing.
EmptySoup == [f \in SoupFields |-> Missing]

\* Sample contents of each element: texts carry the surrounding white space the
\* markup has, attributes are taken as they are.
SampleElement(f) ==
    CASE f = "rental_price" -> <<" ", "$", "9", "\n">>
      [] f = "property_reference" -> <<"R", "7">>
      [] f = "sale_price_div" -> <<"\t", "$", "8">>
      [] f = "external_link_tag" -> <<"/", "x">>
      [] f = "name" -> <<"V", "i", "l", "l", "a">>
      [] f = "latitude" -> <<"1", "3", ".", "1">>
      [] f = "longitude" -> <<"-", "5", "9">>
      [] f = "address" -> <<" ", "B", "a", "y", " ">>
      [] f = "fallback_address" -> <<"H", "i", "l", "l", " ">>
      [] f = "property_type" -> <<"H", "o", "u", "s", "e">>
      [] f = "description_div" -> <<" ", "s", "e", "a">>
      [] f = "further_info_div" ->
            [field_labels |-> <<FloorArea \o <<":", " ">>>>, field_items |-> <<<<" ", "1", "2">>>>]
      [] f = "amenities_list" -> <<<<"P", "o", "o", "l", " ">>, <<"P", "o", "o", "l", " ">>>>

FullSoup == [f \in SoupFields |-> <<SampleElement(f)>>]

\* Listing pages with any subset of the elements missing.
PresenceSoups ==
    {[f \in SoupFields |-> IF f \in present THEN <<SampleElement(f)>> ELSE Missing] :
        present \in SUBSET SoupFields}

SeqsUpTo(S, n) == UNION {[1..k -> S] : k \in 0..n}

LabelTexts == {LandArea \o <<":">>, <<" ">> \o FloorArea \o <<":", " ">>, LandArea,
               <<"B", "e", "d", "s", ":">>, <<":">>}
ItemTexts == {<< >>, <<" ", "5", "0", " ">>, <<"1", "2">>}

\* Listing pages with any "further information" section of up to MaxFields
\* labels and up to MaxFields items, the counts not tied to each other.
FieldSoups ==
    {[EmptySoup EXCEPT !.further_info_div = <<[field_labels |-> ls, field_items |-> is]>>] :
        ls \in SeqsUpTo(LabelTexts, MaxFields), is \in SeqsUpTo(ItemTexts, MaxFields)}

----------------------------------------------------------------------------
(* The object and the site it crawls. *)

\* self.base_url
base_url ==
    <<"h", "t", "t", "p", "s", ":", "/", "/", "w", "w", "w", ".", "b", "a", "r", "b", "a", "d", "o", "s", "p", "r", "o", "p", "e", "r", "t", "y", "s", "e", "a", "r", "c", "h", ".", "c", "o", "m">>

\* self.start_url as __init__ sets it
StartUrl ==
    <<"h", "t", "t", "p", "s", ":", "/", "/", "w", "w", "w", ".", "b", "a", "r", "b", "a", "d", "o", "s", "p", "r", "o", "p", "e", "r", "t", "y", "s", "e", "a", "r", "c", "h", ".", "c", "o", "m", "/", "f", "o", "r", "-", "r", "e", "n", "t">>

SALE == <<"s", "a", "l", "e">>
RENT == <<"r", "e", "n", "t">>

determine_transaction_type(url) ==
    IF Contains(lower(url), SALE) THEN <<"S", "a", "l", "e">>
    ELSE IF Contains(lower(url), RENT) THEN <<"R", "e", "n", "t">>
    ELSE None

\* href of the k-th index page: the start page, then ?page=1, ?page=2, ...
PageHref(k) ==
    IF k = 1 THEN <<"/", "f", "o", "r", "-", "r", "e", "n", "t">>
    ELSE <<"/", "f", "o", "r", "-", "r", "e", "n", "t">> \o <<"?", "p", "a", "g", "e", "=", Digits[k]>>

\* href of the i-th listing
ListingHref(i) == <<"/", "p", "/", Digits[i + 1]>>

ListingHrefs == {ListingHref(i) : i \in 1..NumListings}

\* self.base_url + element['href']
Resolve(href) == base_url \o href

ListingUrls == {Resolve(h) : h \in ListingHrefs}

\* The pagination of a site, its pages numbered in the order the walk reaches
\* them: page k < n links to page k + 1, page n links to page back, or to no
\* page when back = 0.
Sites == UNION {{[n |-> n, back |-> b] : b \in 0..n} : n \in 1..MaxPages}

\* soup.select_one('li.pager-next a') on index page k
NextPageElement(k) ==
    IF k < site.n THEN <<PageHref(k + 1)>>
    ELSE IF site.back # 0 THEN <<PageHref(site.back)>>
    ELSE Missing

\* the index page a URL names
PageOf(url) == CHOOSE k \in 1..site.n : Resolve(PageHref(k)) = url

\* soup.select('div.field-item.even h5 a') of any index page: the hrefs in document order
LinkSeqs == SeqsUpTo(ListingHrefs, MaxLinks)

\* The listing pages of the site the walk is run on.
SiteListings ==
    [u \in ListingUrls |->
        IF u = Resolve(ListingHref(1)) THEN FullSoup
        ELSE IF u = Resolve(ListingHref(2)) THEN EmptySoup
        ELSE [EmptySoup EXCEPT !.name = <<SampleElement("name")>>,
                               !.fallback_address = <<SampleElement("fallback_address")>>]]

NoSoup == [listing_elements |-> << >>, next_page_element |-> Missing]

\* The object after __init__, before scrape() is called.
Init ==
    /\ start_url = StartUrl
    /\ transaction_type = determine_transaction_type(start_url)
    /\ site \in Sites
    /\ served = << >>
    /\ listing_soup = SiteListings
    /\ pc = "scrape"
    /\ stack = << >>
    /\ page_soup = NoSoup
    /\ idx = 0
    /\ scraped_urls = {}
    /\ data = << >>
    /\ discovered = {}
    /\ fetched = << >>
    /\ invoked = << >>
    /\ exports = 0
    /\ failure = "none"
    /\ filename = << >>

objectVars == <<start_url, transaction_type>>
siteVars == <<site, listing_soup>>

\* the URL the innermost scrape_page frame was called with
Top == stack[Len(stack)]

\* property_url of the current iteration of the for loop
property_url == Resolve(page_soup.listing_elements[idx])

\* scrape(), line 28: the call scrape_page(self.start_url)
Scrape ==
    /\ pc = "scrape"
    /\ stack' = <<start_url>>
    /\ pc' = "fetch_page"
    /\ UNCHANGED <<objectVars, siteVars, served, page_soup, idx, scraped_urls, data,
                   discovered, fetched, invoked, exports, failure, filename>>

\* the index pages the walk can reach more than once
OnCycle(k) == site.back # 0 /\ k >= site.back

\* scrape_page, lines 35-39: the index page is fetched and parsed, the listing
\* links and the next link selected.  The site serves a page it has served
\* before with the same links.
FetchPage ==
    /\ pc = "fetch_page"
    /\ LET k == PageOf(Top)
       IN  \E links \in (IF k \in DOMAIN served THEN {served[k]} ELSE LinkSeqs) :
              /\ served' = IF OnCycle(k)
                           THEN [p \in DOMAIN served \cup {k} |->
                                    IF p = k THEN links ELSE served[p]]
                           ELSE served
              /\ page_soup' = [listing_elements |-> links,
                               next_page_element |-> NextPageElement(k)]
              /\ discovered' = discovered \cup {Resolve(links[i]) : i \in 1..Len(links)}
    /\ fetched' = Append(fetched, Top)
    /\ idx' = 1
    /\ pc' = "links"
    /\ UNCHANGED <<objectVars, siteVars, stack, scraped_urls, data, invoked,
                   exports, failure, filename>>

\* Mutant of FetchFails: the exception is caught and the run goes on to the export.
FetchFails_Caught ==
    /\ pc \in {"fetch_page", "fetch_listing"}
    /\ failure' = "fetch"
    /\ pc' = "save"
    /\ stack' = << >>
    /\ UNCHANGED <<objectVars, siteVars, served, page_soup, idx, scraped_urls, data,
                   discovered, fetched, invoked, exports, filename>>

\* requests.get or the parse raises, in scrape_page (35-36) or in scrape_listing
\* (54-55): nothing catches it, every frame is left and the run ends.
FetchFails ==
    /\ pc \in {"fetch_page", "fetch_listing"}
    /\ failure' = "fetch"
    /\ pc' = "aborted"
    /\ stack' = << >>
    /\ UNCHANGED <<objectVars, siteVars, served, page_soup, idx, scraped_urls, data,
                   discovered, fetched, invoked, exports, filename>>

\* Mutant of NewListing: the membership test of line 42 is left out.
NewListing_Unguarded ==
    /\ pc = "links"
    /\ idx <= Len(page_soup.listing_elements)
    /\ scraped_urls' = scraped_urls \cup {property_url}
    /\ invoked' = Append(invoked, property_url)
    /\ pc' = "fetch_listing"
    /\ UNCHANGED <<objectVars, siteVars, served, stack, page_soup, idx, data, discovered, fetched,
                   exports, failure, filename>>

\* Mutant of NewListing: the URL is not added to the set (line 43 left out).
NewListing_NoInsert ==
    /\ pc = "links"
    /\ idx <= Len(page_soup.listing_elements)
    /\ property_url \notin scraped_urls
    /\ scraped_urls' = scraped_urls
    /\ invoked' = Append(invoked, property_url)
    /\ pc' = "fetch_listing"
    /\ UNCHANGED <<objectVars, siteVars, served, stack, page_soup, idx, data, discovered, fetched,
                   exports, failure, filename>>

\* lines 40-45, a URL not in self.scraped_urls: it is added, then scrape_listing is called
NewListing ==
    /\ pc = "links"
    /\ idx <= Len(page_soup.listing_elements)
    /\ property_url \notin scraped_urls
    /\ scraped_urls' = scraped_urls \cup {property_url}
    /\ invoked' = Append(invoked, property_url)
    /\ pc' = "fetch_listing"
    /\ UNCHANGED <<objectVars, siteVars, served, stack, page_soup, idx, data, discovered, fetched,
                   exports, failure, filename>>

\* lines 40-42, a URL already in self.scraped_urls: the loop goes on
KnownListing ==
    /\ pc = "links"
    /\ idx <= Len(page_soup.listing_elements)
    /\ property_url \in scraped_urls
    /\ idx' = idx + 1
    /\ UNCHANGED <<objectVars, siteVars, served, pc, stack, page_soup, scraped_urls, data,
                   discovered, fetched, invoked, exports, failure, filename>>

\* Mutant of ScrapeListing: the record is inserted at the front of self.data.
ScrapeListing_Prepend ==
    /\ pc = "fetch_listing"
    /\ data' = <<PropertyData(property_url, listing_soup[property_url], transaction_type)>>
                \o data
    /\ idx' = idx + 1
    /\ pc' = "links"
    /\ UNCHANGED <<objectVars, siteVars, served, stack, page_soup, scraped_urls,
                   discovered, fetched, invoked, exports, failure, filename>>

\* scrape_listing, lines 54-143, the fetch having succeeded: the record is
\* built and appended, and the loop of scrape_page goes on
ScrapeListing ==
    /\ pc = "fetch_listing"
    /\ data' = Append(data, PropertyData(property_url, listing_soup[property_url],
                                         transaction_type))
    /\ idx' = idx + 1
    /\ pc' = "links"
    /\ UNCHANGED <<objectVars, siteVars, served, stack, page_soup, scraped_urls,
                   discovered, fetched, invoked, exports, failure, filename>>

\* lines 48-51, a next link and room for one more frame: the recursive call
NextPage ==
    /\ pc = "links"
    /\ idx > Len(page_soup.listing_elements)
    /\ page_soup.next_page_element # Missing
    /\ Len(stack) < RecursionLimit
    /\ stack' = Append(stack, Resolve(page_soup.next_page_element[1]))
    /\ pc' = "fetch_page"
    /\ UNCHANGED <<objectVars, siteVars, served, page_soup, idx, scraped_urls, data,
                   discovered, fetched, invoked, exports, failure, filename>>

\* Mutant of RecursionError: the error is taken for the end of the pagination.
RecursionError_Swallowed ==
    /\ pc = "links"
    /\ idx > Len(page_soup.listing_elements)
    /\ page_soup.next_page_element # Missing
    /\ Len(stack) >= RecursionLimit
    /\ failure' = "recursion"
    /\ pc' = "return"
    /\ stack' = stack
    /\ UNCHANGED <<objectVars, siteVars, served, page_soup, idx, scraped_urls, data,
                   discovered, fetched, invoked, exports, filename>>

\* line 51 with the interpreter's recursion limit reached: the call raises
\* RecursionError, which nothing catches
RecursionError ==
    /\ pc = "links"
    /\ idx > Len(page_soup.listing_elements)
    /\ page_soup.next_page_element # Missing
    /\ Len(stack) >= RecursionLimit
    /\ failure' = "recursion"
    /\ pc' = "aborted"
    /\ stack' = << >>
    /\ UNCHANGED <<objectVars, siteVars, served, page_soup, idx, scraped_urls, data,
                   discovered, fetched, invoked, exports, filename>>

\* lines 48-49, no next link: scrape_page returns
NoNextPage ==
    /\ pc = "links"
    /\ idx > Len(page_soup.listing_elements)
    /\ page_soup.next_page_element = Missing
    /\ pc' = "return"
    /\ UNCHANGED <<objectVars, siteVars, served, stack, page_soup, idx, scraped_urls, data,
                   discovered, fetched, invoked, exports, failure, filename>>

\* a scrape_page frame returns: to the caller's line 51, which returns in turn,
\* or from the outermost frame to scrape(), line 30
Return ==
    /\ pc = "return"
    /\ stack' = SubSeq(stack, 1, Len(stack) - 1)
    /\ pc' = IF Len(stack) = 1 THEN "save" ELSE "return"
    /\ UNCHANGED <<objectVars, siteVars, served, page_soup, idx, scraped_urls, data,
                   discovered, fetched, invoked, exports, failure, filename>>

----------------------------------------------------------------------------
(* The exporter. *)

HTTPS == <<"h", "t", "t", "p", "s", ":", "/", "/">>
HTTP == <<"h", "t", "t", "p", ":", "/", "/">>
XLSX == <<".", "x", "l", "s", "x">>

\* Code points outside ASCII that str.isalnum() accepts: a letter and a digit.
UnicodeWordChars == {"U+00E9", "U+0663"}

AsciiWordChars == Range(UpperCase) \cup Range(LowerCase) \cup Range(Digits) \cup {"_"}

\* Mutant of IsWordChar: \w as under re.ASCII.
IsAsciiWordChar(c) == c \in AsciiWordChars

\* \w of a str pattern: re.UNICODE is the default for it
IsWordChar(c) == c \in AsciiWordChars \cup UnicodeWordChars

\* re.sub(r'[^\w\-_.]', '_', s)
ReSub(s) == [i \in 1..Len(s) |-> IF IsWordChar(s[i]) \/ s[i] \in {"-", "_", "."} THEN s[i] ELSE "_"]

sanitize_filename(url) == ReSub(replace(replace(url, HTTPS, << >>), HTTP, << >>))

\* scrape(), line 31, and save_to_excel, which writes the file
SaveToExcel ==
    /\ pc = "save"
    /\ exports' = exports + 1
    /\ filename' = sanitize_filename(start_url) \o XLSX
    /\ pc' = "done"
    /\ UNCHANGED <<objectVars, siteVars, served, stack, page_soup, idx, scraped_urls, data,
                   discovered, fetched, invoked, failure>>

\* save_to_excel, lines 156-162: os.makedirs or the writer raises
SaveFails ==
    /\ pc = "save"
    /\ exports' = exports + 1
    /\ filename' = sanitize_filename(start_url) \o XLSX
    /\ failure' = "write"
    /\ pc' = "aborted"
    /\ UNCHANGED <<objectVars, siteVars, served, stack, page_soup, idx, scraped_urls, data,
                   discovered, fetched, invoked>>

Next ==
    \/ Scrape
    \/ FetchPage
    \/ FetchFails
    \/ NewListing
    \/ KnownListing
    \/ ScrapeListing
    \/ NextPage
    \/ RecursionError
    \/ NoNextPage
    \/ Return
    \/ SaveToExcel
    \/ SaveFails

Spec == Init /\ [][Next]_vars

----------------------------------------------------------------------------
(* scrape_listing on any listing page: the walk at line 45, on the call of    *)
(* scrape_listing for the only link of a site of one index page.              *)

ListingInputs == PresenceSoups \cup FieldSoups

InitListing ==
    /\ start_url = StartUrl
    /\ transaction_type = determine_transaction_type(start_url)
    /\ site = [n |-> 1, back |-> 0]
    /\ served = << >>
    /\ \E soup \in ListingInputs : listing_soup = [u \in {Resolve(ListingHref(1))} |-> soup]
    /\ pc = "fetch_listing"
    /\ stack = <<start_url>>
    /\ page_soup = [listing_elements |-> <<ListingHref(1)>>, next_page_element |-> Missing]
    /\ idx = 1
    /\ scraped_urls = {Resolve(ListingHref(1))}
    /\ data = << >>
    /\ discovered = {Resolve(ListingHref(1))}
    /\ fetched = <<start_url>>
    /\ invoked = <<Resolve(ListingHref(1))>>
    /\ exports = 0
    /\ failure = "none"
    /\ filename = << >>

NextListing == ScrapeListing

SpecListing == InitListing /\ [][NextListing]_vars

----------------------------------------------------------------------------
(* save_to_excel for any start URL: scrape() at line 30, after the walk of a  *)
(* site of one index page without listings.                                   *)

UrlAlphabet == {"a", "Z", "7", "_", "-", ".", "/", "?", "U+00E9", "U+0663"}

ExampleUrl ==
    <<"h", "t", "t", "p", "s", ":", "/", "/", "e", "x", "a", "m", "p", "l", "e", ".", "c", "o", "m", "/", "f", "o", "r", "-", "r", "e", "n", "t", "?", "x", "=", "1">>

UrlInputs ==
    {a \o scheme \o b : a \in SeqsUpTo(UrlAlphabet, 1), scheme \in {<< >>, HTTPS, HTTP},
                        b \in SeqsUpTo(UrlAlphabet, MaxUrlLen)}
    \cup {ExampleUrl, StartUrl}

InitSave ==
    /\ start_url \in UrlInputs
    /\ transaction_type = determine_transaction_type(start_url)
    /\ site = [n |-> 1, back |-> 0]
    /\ served = << >>
    /\ listing_soup = SiteListings
    /\ pc = "save"
    /\ stack = << >>
    /\ page_soup = NoSoup
    /\ idx = 1
    /\ scraped_urls = {}
    /\ data = << >>
    /\ discovered = {}
    /\ fetched = <<start_url>>
    /\ invoked = << >>
    /\ exports = 0
    /\ failure = "none"
    /\ filename = << >>

NextSave ==
    \/ SaveToExcel
    \/ SaveFails

SpecSave == InitSave /\ [][NextSave]_vars

----------------------------------------------------------------------------
(* Properties. *)

UrlsOf(records) == [i \in 1..Len(records) |-> records[i]["url"]]
UrlSet(records) == {records[i]["url"] : i \in 1..Len(records)}
IsPrefix(a, b) == Len(a) <= Len(b) /\ SubSeq(b, 1, Len(a)) = a
Count(seq, x) == Cardinality({i \in 1..Len(seq) : seq[i] = x})

\* scrape_page has returned to scrape(): the walk has terminated normally
WalkReturned == pc \in {"save", "done"} \/ (pc = "aborted" /\ failure = "write")

\* C1: scrape_listing is never invoked twice with the same URL, and once the
\* walk has returned self.data holds exactly one record for each listing URL
\* that any fetched index page links to.
C1_Dedup ==
    /\ \A u \in ListingUrls : Count(invoked, u) <= 1
    /\ WalkReturned =>
          /\ \A u \in discovered : Count(UrlsOf(data), u) = 1
          /\ UrlSet(data) = discovered
          /\ Len(data) = Cardinality(discovered)

\* C1 witness: a walk of two index pages has ended; the second page lists
\* listing 2 before listing 1 and yet the record of listing 1 comes first, so
\* listing 1 was linked from the first page too; every listing has one record.
C1_Witness ==
    /\ pc = "done"
    /\ Len(fetched) = 2
    /\ page_soup.listing_elements = <<ListingHref(2), ListingHref(1)>>
    /\ Len(data) >= 2
    /\ data[1]["url"] = Resolve(ListingHref(1))

\* C2 (as claimed): on a site whose index pages form a finite chain, with no
\* fetch failing, the walk does not abort, and when scrape_page has returned
\* every page of the chain has been fetched exactly once, in chain order.
C2_ChainTerminates ==
    site.back = 0 =>
        /\ pc = "aborted" => failure \in {"fetch", "write"}
        /\ WalkReturned => fetched = [k \in 1..site.n |-> Resolve(PageHref(k))]

\* the state part of C3
C3_State ==
    /\ UrlSet(data) \subseteq scraped_urls
    /\ pc = "fetch_listing" => property_url \in scraped_urls /\ property_url \notin UrlSet(data)

\* C3: the URL of every record of self.data is in self.scraped_urls, in every
\* state; a URL is in the set before its extraction is attempted and has no
\* record until the extraction is over; no URL ever leaves the set.
C3_VisitedCoversData == []C3_State /\ [][scraped_urls \subseteq scraped_urls']_vars

\* C3 witness: an extraction has failed after another one succeeded; the URL
\* of the failed one is in the set and has no record.
C3_Witness ==
    /\ pc = "aborted"
    /\ failure = "fetch"
    /\ Len(data) >= 1
    /\ Cardinality(scraped_urls) = Len(data) + 1

\* the state part of C4
C4_State ==
    /\ failure \in {"fetch", "recursion"} => pc = "aborted" /\ exports = 0
    /\ exports <= 1
    /\ exports = 1 => stack = << >> /\ UrlsOf(data) = invoked /\ failure \in {"none", "write"}
    /\ pc = "done" => exports = 1
    /\ pc \in {"scrape", "fetch_page", "links", "fetch_listing", "return", "save"} => exports = 0

\* C4: a failed fetch ends the run at once, with nothing fetched, appended or
\* exported from then on; save_to_excel is called at most once, only after
\* scrape_page has returned with every discovered listing extracted, and a
\* run that ends normally has called it exactly once.
C4_FailFast ==
    /\ []C4_State
    /\ [][failure' = "fetch" => fetched' = fetched /\ data' = data /\ exports' = exports]_vars
    /\ [][failure = "fetch" => fetched' = fetched /\ data' = data /\ exports' = exports]_vars

\* C4 witness: a fetch has failed after two records were accumulated, and the
\* exporter has not been called.
C4_Witness ==
    /\ pc = "aborted"
    /\ failure = "fetch"
    /\ Len(data) >= 2
    /\ exports = 0

\* The Area the claim C5 describes: by presence of the keys alone.
AreaByKey(characteristics) ==
    IF LandArea \in DOMAIN characteristics THEN characteristics[LandArea]
    ELSE DictGet(characteristics, FloorArea, NA)

\* C5 (as claimed): the Area of every record is the value of 'Land Area' when
\* that key is in its characteristics, else the value of 'Floor Area' when
\* that key is, else 'N/A'.
C5_AreaSelection ==
    \A i \in 1..Len(data) : data[i]["Area"] = AreaByKey(data[i]["characteristics"])

PropertyFields == {"url", "name", "address", "Sale Price", "Rent Price", "Area", "description",
                   "latitude", "longitude", "property_type", "transaction_type",
                   "characteristics", "amenities", "more_information"}
\* the fields that hold a str; the others hold a dict or a list
ScalarFields == PropertyFields \ {"characteristics", "amenities", "more_information"}
MoreInfoFields == {"Rental Price", "Property Reference", "Sale Price", "External Link"}

SentinelsOf(soup, r) ==
    LET mi == r["more_information"]
    IN  /\ soup.rental_price = Missing => r["Rent Price"] = Dash /\ mi["Rental Price"] = Dash
        /\ soup.property_reference = Missing => mi["Property Reference"] = Dash
        /\ soup.sale_price_div = Missing => r["Sale Price"] = Dash /\ mi["Sale Price"] = Dash
        /\ soup.external_link_tag = Missing => mi["External Link"] = Dash
        /\ soup.name = Missing => r["name"] = Dash
        /\ soup.latitude = Missing => r["latitude"] = Dash
        /\ soup.longitude = Missing => r["longitude"] = Dash
        /\ (soup.address = Missing /\ soup.fallback_address = Missing) => r["address"] = Dash
        /\ soup.property_type = Missing => r["property_type"] = Dash
        /\ soup.description_div = Missing => r["description"] = Dash
        /\ soup.further_info_div = Missing => r["characteristics"] = EmptyDict /\ r["Area"] = NA
        /\ soup.amenities_list = Missing => r["amenities"] = << >>
        /\ (LandArea \notin DOMAIN r["characteristics"]
              /\ FloorArea \notin DOMAIN r["characteristics"]) => r["Area"] = NA

AsciiSafe == AsciiWordChars \cup {"-", "."}

\* the start URL without its schemes
SchemeLess(url) == replace(replace(url, HTTPS, << >>), HTTP, << >>)

\* the file name without its extension
BaseName == SubSeq(filename, 1, Len(filename) - Len(XLSX))

\* C7 (as claimed): the sanitized name has only characters of [A-Za-z0-9_.-]:
\* it is the start URL, its scheme dropped, with every other character
\* replaced by '_'.
C7_AsciiOnly ==
    exports = 1 =>
        /\ \A i \in 1..Len(BaseName) : BaseName[i] \in AsciiSafe
        /\ BaseName = [i \in 1..Len(SchemeLess(start_url)) |->
                          IF SchemeLess(start_url)[i] \in AsciiSafe
                          THEN SchemeLess(start_url)[i] ELSE "_"]

\* C7 (amended): the sanitized name is the start URL with every 'https://',
\* then every 'http://' deleted and every character replaced by '_' unless
\* it is a word character of any script, '-' or '.'; letters and digits
\* outside ASCII are kept, and a URL of ASCII characters yields a name of
\* characters of [A-Za-z0-9_.-] only.
C7_Sanitized ==
    exports = 1 =>
        /\ filename = BaseName \o XLSX
        /\ Len(BaseName) = Len(SchemeLess(start_url))
        /\ \A i \in 1..Len(BaseName) :
              LET c == SchemeLess(start_url)[i]
              IN  /\ c \in AsciiSafe \cup UnicodeWordChars => BaseName[i] = c
                  /\ c \notin AsciiSafe \cup UnicodeWordChars => BaseName[i] = "_"
        /\ (\A i \in 1..Len(start_url) : start_url[i] \notin UnicodeWordChars)
              => \A i \in 1..Len(BaseName) : BaseName[i] \in AsciiSafe
        /\ start_url = ExampleUrl => BaseName = <<"e", "x", "a", "m", "p", "l", "e", ".", "c", "o", "m", "_", "f", "o", "r", "-", "r", "e", "n", "t", "_", "x", "_", "1">>

\* C7 witness: a start URL with a scheme, a letter outside ASCII and a
\* character to replace has been sanitized.
C7_Witness ==
    /\ pc = "done"
    /\ start_url = HTTPS \o <<"U+00E9", "?">>
    /\ BaseName = <<"U+00E9", "_">>

C8_State ==
    site.back # 0 =>
        /\ ~WalkReturned /\ pc # "return" /\ exports = 0
        /\ Len(fetched) <= RecursionLimit
        /\ pc = "aborted" => failure \in {"fetch", "recursion"}

KeyOf(labels, i) == replace(strip(labels[i]), <<":">>, << >>)

Max(S) == CHOOSE x \in S : \A y \in S : y <= x

PairedPositionally(soup, characteristics) ==
    IF soup.further_info_div = Missing THEN characteristics = EmptyDict
    ELSE LET L == soup.further_info_div[1].field_labels
             I == soup.further_info_div[1].field_items
             m == Min(Len(L), Len(I))
         IN  /\ DOMAIN characteristics = {KeyOf(L, i) : i \in 1..m}
             /\ \A k \in DOMAIN characteristics :
                   characteristics[k] = strip(I[Max({i \in 1..m : KeyOf(L, i) = k})])

\* C9: the characteristics of a record pair the labels and the items of the
\* "further information" section by position, up to the shorter of the two;
\* the key is the label trimmed and without colons, the value the item
\* trimmed, the last pair of a key wins; without the section the mapping is
\* empty.
C9_Pairing ==
    /\ pc = "links" => Len(data) = Len(invoked)
    /\ \A i \in 1..Len(data) :
          PairedPositionally(listing_soup[data[i]["url"]], data[i]["characteristics"])

\* C9 witness: a section of two labels that give the same key and two items
\* has been extracted, and the second item is the value.
C9_Witness ==
    /\ Len(data) = 1
    /\ listing_soup[data[1]["url"]].further_info_div # Missing
    /\ listing_soup[data[1]["url"]].further_info_div[1] =
          [field_labels |-> <<LandArea \o <<":">>, LandArea>>,
           field_items |-> <<<<" ", "5", "0", " ">>, <<"1", "2">>>>]
    /\ data[1]["characteristics"][LandArea] = <<"1", "2">>

\* the links of the current index page before position j
LinksBefore(j) == {Resolve(page_soup.listing_elements[i]) :
                      i \in 1..Min(j - 1, Len(page_soup.listing_elements))}

\* the state part of C10
C10_State ==
    /\ IsPrefix(UrlsOf(data), invoked)
    /\ pc # "fetch_listing" /\ failure # "fetch" => UrlsOf(data) = invoked
    /\ pc \in {"links", "fetch_listing"} => LinksBefore(idx) \subseteq UrlSet(data)
    /\ pc = "fetch_listing" => invoked[Len(invoked)] = property_url
    /\ pc = "fetch_page" => UrlSet(data) = discovered
    /\ \A i \in 1..Min(Len(fetched), site.n) : fetched[i] = Resolve(PageHref(i))

\* C10: self.data only grows, by one record at its end; the records are in
\* the order the loop of scrape_page first met their URLs: a record is
\* appended only when every link before it on its index page has one, and an
\* index page is fetched only when every link of the pages before has one.
C10_DiscoveryOrder ==
    /\ []C10_State
    /\ [][data' = data \/ (Len(data') = Len(data) + 1 /\ SubSeq(data', 1, Len(data)) = data)]_vars
    /\ [][data' # data => data'[Len(data')]["url"] = property_url]_vars

\* C10 witness: a walk of two index pages has ended with the record of
\* listing 2 before the record of listing 1.
C10_Witness ==
    /\ pc = "done"
    /\ Len(fetched) = 2
    /\ UrlsOf(data) = <<Resolve(ListingHref(2)), Resolve(ListingHref(1))>>

====
